---- MODULE Spec2Model ----
(***************************************************************************)
(* A model of the issue manager: the Reconciliation Matcher                *)
(* (matchIssuesToLinear, src/src/lib/claude.ts) and the run of the         *)
(* `process` and `quick` commands (src/index.ts, version 0.3.0), with the  *)
(* ticket-store writer (createIssue, updateIssue, addCommentToIssue,       *)
(* src/src/lib/config.ts).                                                 *)
(*                                                                         *)
(* Four specifications:                                                    *)
(*   SpecMatch  one call of matchIssuesToLinear on inputs drawn from       *)
(*              bounded sets, the parsed model response kept beside the    *)
(*              result, and a second call on the same inputs;              *)
(*   SpecCall   one call of a function of claude.ts that asks the language *)
(*              model, on a phrase and a completion drawn from bounded     *)
(*              sets;                                                      *)
(*   Spec       a whole run of `process` or `quick`, from the start of the *)
(*              command to one of its ends.                                *)
(*   FairSpec   Spec with the assumption that a step that can be taken  *)
(*              is taken (every call and every prompt returns).            *)
(***************************************************************************)
EXTENDS Integers, Sequences, FiniteSets, TLC

VARIABLES
    pc,                 \* position of the run in the command's action
    cmd,                \* "process" | "quick"
    isDryRun,           \* options.dryRun
    skipEnrichment,     \* options.skipEnrichment (quick: always TRUE)
    enrichmentContext,  \* question -> answer, as a set of pairs
    teamId,             \* the team selected by the user
    existingIssues,     \* the snapshot fetched by fetchIssuesForTeam
    extractedIssues,    \* result of the first extractIssuesStructured call
    message,            \* content of the completion (SpecMatch, SpecCall)
    processedIssues,    \* the action list that is reviewed and executed
    refinedIssues,      \* result of the re-extraction after feedback
    refinedProcessed,   \* result of the re-match after feedback
    issueDeadlines,     \* Map<number, string | null>, as a set of pairs
    i,                  \* loop variable of the deadline and execute loops
    results,            \* { created, updated, commented }
    failedTitle,        \* title named by execSpinner.fail
    storeWrites,        \* requests received by the ticket store, in order
    displayed,          \* the action list last shown to the user
    confirmAnswers,     \* the user's answers to confirm(), in order
    calls,              \* calls to the language model and the store reader
    questionsFailed,    \* the catch block of the question generation ran
    fn,                 \* the function of claude.ts under call (SpecCall)
    phrase,             \* the phrase given to parseDeadlineToDate (SpecCall)
    returned            \* outcome of the call (SpecCall), of the second
                        \* call (SpecMatch)

vars == <<pc, cmd, isDryRun, skipEnrichment, enrichmentContext, teamId,
          existingIssues,
          extractedIssues, message, processedIssues, refinedIssues,
          refinedProcessed, issueDeadlines, i, results, failedTitle,
          storeWrites, displayed, confirmAnswers, calls, questionsFailed,
          fn, phrase, returned>>

\* the variables of the single calls, with the mark of the question catch
callVars == <<questionsFailed, fn, phrase, returned>>

----------------------------------------------------------------------------
(* Bounds of the model. *)

\* most candidates one extraction returns
MaxCand == 2

\* most entries in one matching response of the model
MaxMatches == 2

----------------------------------------------------------------------------
(* Values. *)

\* JavaScript's undefined, where a string is expected
Undefined == "undefined"

Priorities == <<"low", "medium", "high", "urgent">>

\* ExtractedIssue: the candidates an extraction can return, in order
CandidatePool ==
    << [title |-> "T1", description |-> "D1", type |-> "bug",
        priority |-> "low"],
       [title |-> "T2", description |-> "D2", type |-> "feature",
        priority |-> "urgent"],
       [title |-> "T3", description |-> "D3", type |-> "improvement",
        priority |-> "medium"],
       [title |-> "T4", description |-> "D4", type |-> "question",
        priority |-> "high"] >>

\* extractedIssues[k] for a k that is no index of the array
UndefinedCandidate ==
    [title |-> Undefined, description |-> Undefined, type |-> Undefined,
     priority |-> Undefined]

\* Issue: the tickets the tracker can hold
TicketPool ==
    << [id |-> "id1", identifier |-> "A-1"],
       [id |-> "id2", identifier |-> "A-2"] >>

\* Array.prototype.find finding nothing
UndefinedIssue == [id |-> Undefined, identifier |-> Undefined]

\* the snapshots fetchIssuesForTeam can return
Snapshots == { SubSeq(TicketPool, 1, n) : n \in 0..Len(TicketPool) }

\* the lists extractIssuesStructured can return
ExtractionOutputs == { SubSeq(CandidatePool, 1, n) : n \in 0..MaxCand }

----------------------------------------------------------------------------
(* issueIndex as the model can emit it: a JSON number that is an integer,  *)
(* a JSON number that is not (n + 1/2), or no issueIndex at all.           *)

IntIdx(n) == [kind |-> "int", n |-> n]
FracIdx(n) == [kind |-> "frac", n |-> n]
MissingIdx == [kind |-> "undefined", n |-> 0]

\* match.issueIndex < k, for an integer k (undefined < k is false)
IndexLessThan(idx, k) ==
    CASE idx.kind = "int" -> idx.n < k
      [] idx.kind = "frac" -> idx.n < k
      [] OTHER -> FALSE

\* match.issueIndex >= k, for an integer k (undefined >= k is false)
IndexAtLeast(idx, k) ==
    CASE idx.kind = "int" -> idx.n >= k
      [] idx.kind = "frac" -> idx.n >= k
      [] OTHER -> FALSE

\* extractedIssues[match.issueIndex]
ElementAt(arr, idx) ==
    IF idx.kind = "int" /\ idx.n >= 0 /\ idx.n < Len(arr)
    THEN arr[idx.n + 1]
    ELSE UndefinedCandidate

\* a string used as a condition
Truthy(s) == s # Undefined /\ s # ""

----------------------------------------------------------------------------
(* matchIssuesToLinear *)

\* the filter callback: the entry is kept (mutant: >= written as >)
InBoundsOffByOne(match, n) ==
    ~(IndexLessThan(match.issueIndex, 0) \/ IndexAtLeast(match.issueIndex, n + 1))

\* the filter callback: the entry is kept
InBounds(match, n) ==
    ~(IndexLessThan(match.issueIndex, 0) \/ IndexAtLeast(match.issueIndex, n))

RECURSIVE FilterMatches(_, _)
\* matches.filter(...)
FilterMatches(ms, n) ==
    IF ms = <<>> THEN <<>>
    ELSE IF InBounds(Head(ms), n)
         THEN <<Head(ms)>> \o FilterMatches(Tail(ms), n)
         ELSE FilterMatches(Tail(ms), n)

\* find (mutant: the first ticket, whatever its identifier)
FindFirst(existing, identifier) ==
    IF existing = <<>> THEN UndefinedIssue ELSE Head(existing)

RECURSIVE FindByIdentifier(_, _)
\* existingIssues.find(i => i.identifier === identifier): the first one
FindByIdentifier(existing, identifier) ==
    IF existing = <<>> THEN UndefinedIssue
    ELSE IF Head(existing).identifier = identifier THEN Head(existing)
         ELSE FindByIdentifier(Tail(existing), identifier)

\* the map callback (mutant: an update or comment whose target does not
\* resolve becomes a create)
ResolveMatchPromote(match, extracted, existing) ==
    LET matchedIssue ==
            IF Truthy(match.matchedIssueIdentifier)
            THEN FindByIdentifier(existing, match.matchedIssueIdentifier)
            ELSE UndefinedIssue
    IN  [extractedIssue |-> ElementAt(extracted, match.issueIndex),
         action |-> IF matchedIssue = UndefinedIssue THEN "create"
                    ELSE match.action,
         matchedIssueId |-> matchedIssue.id,
         matchedIssueIdentifier |-> match.matchedIssueIdentifier,
         reason |-> match.reason]

\* the map callback
ResolveMatch(match, extracted, existing) ==
    LET matchedIssue ==
            IF Truthy(match.matchedIssueIdentifier)
            THEN FindByIdentifier(existing, match.matchedIssueIdentifier)
            ELSE UndefinedIssue
    IN  [extractedIssue |-> ElementAt(extracted, match.issueIndex),
         action |-> match.action,
         matchedIssueId |-> matchedIssue.id,
         matchedIssueIdentifier |-> match.matchedIssueIdentifier,
         reason |-> match.reason]

\* map (mutant: the results are collected last first)
MapMatchesReversed(ms, extracted, existing) ==
    [j \in 1..Len(ms) |->
        ResolveMatch(ms[Len(ms) + 1 - j], extracted, existing)]

\* matches.filter(...).map(...)
MapMatches(ms, extracted, existing) ==
    [j \in 1..Len(ms) |-> ResolveMatch(ms[j], extracted, existing)]

\* the number the prompt shows before the candidate at index idx
PromptNumber(idx) == idx + 1

\* the numbered candidates of the prompt, in order
PromptCandidates(extracted) ==
    [k \in 1..Len(extracted) |->
        [number |-> PromptNumber(k - 1), title |-> extracted[k].title]]

\* The call: msg is the completion's first content block, decoded.  The
\* result is the value returned, or threw when the call raises an error.
matchIssuesToLinear(extracted, existing, msg) ==
    IF msg.type # "text" \/ ~msg.json
    THEN [threw |-> TRUE, value |-> <<>>]
    ELSE [threw |-> FALSE,
          value |-> MapMatches(FilterMatches(msg.matches, Len(extracted)),
                               extracted, existing)]

----------------------------------------------------------------------------
(* What the language model can answer to the matching prompt. *)

\* issueIndex values: integers from -1 to MaxCand, 1/2, and none
IndexValues ==
    { IntIdx(n) : n \in -1..MaxCand } \cup { MissingIdx, FracIdx(0) }

\* action values: the three of the prompt, and one that is none of them
ModelActions == {"create", "update", "comment", "merge"}

\* matchedIssueIdentifier values: none, and the identifiers of the pool
ModelIdentifiers == {Undefined} \cup { TicketPool[t].identifier : t \in 1..Len(TicketPool) }

\* an entry without its reason
BaseEntries ==
    [issueIndex : IndexValues, action : ModelActions,
     matchedIssueIdentifier : ModelIdentifiers]

\* the parsed arrays of n entries; the reason of the j-th entry is written j
ResponsesOfLen(n) ==
    { [j \in 1..n |->
          [issueIndex |-> f[j].issueIndex, action |-> f[j].action,
           matchedIssueIdentifier |-> f[j].matchedIssueIdentifier,
           reason |-> j]] : f \in [1..n -> BaseEntries] }

\* the parsed arrays of at most maxLen entries
ModelResponses(maxLen) == UNION { ResponsesOfLen(n) : n \in 0..maxLen }

\* the first content block of the completion: not text, text that is not
\* JSON, or text that parses to an array of entries
Messages(maxLen) ==
    { [type |-> "tool_use", json |-> FALSE, matches |-> <<>>],
      [type |-> "text", json |-> FALSE, matches |-> <<>>] }
    \cup { [type |-> "text", json |-> TRUE, matches |-> r] : r \in ModelResponses(maxLen) }

NoMessage == [type |-> "none", json |-> FALSE, matches |-> <<>>]

EmptyResults == [created |-> <<>>, updated |-> <<>>, commented |-> <<>>]

\* no call has returned yet
NotReturned == [threw |-> FALSE, called |-> FALSE, value |-> <<>>]

\* the outcome of a call that reached the language model
Outcome(threw, value) == [threw |-> threw, called |-> TRUE, value |-> value]

\* what a call leaves of its arguments (mutant: the filter is done in
\* place, the candidates lose their last element)
ArgumentsAfterMatchInPlace(extracted, existing) ==
    [extracted |-> IF extracted = <<>> THEN <<>>
                   ELSE SubSeq(extracted, 1, Len(extracted) - 1),
     existing |-> existing]

\* what a call leaves of its arguments: filter, map and find build new
\* values and assign to neither array
ArgumentsAfterMatch(extracted, existing) ==
    [extracted |-> extracted, existing |-> existing]

----------------------------------------------------------------------------
(* SpecMatch: one call of matchIssuesToLinear. *)

MatchInit ==
    /\ pc = "match_call"
    /\ extractedIssues \in ExtractionOutputs
    /\ existingIssues \in Snapshots
    /\ message \in Messages(MaxMatches)
    /\ processedIssues = <<>>
    /\ cmd = "none"
    /\ isDryRun = FALSE
    /\ skipEnrichment = TRUE
    /\ enrichmentContext = {}
    /\ teamId = Undefined
    /\ refinedIssues = <<>>
    /\ refinedProcessed = <<>>
    /\ issueDeadlines = {}
    /\ i = 0
    /\ results = EmptyResults
    /\ failedTitle = Undefined
    /\ storeWrites = <<>>
    /\ displayed = <<>>
    /\ confirmAnswers = <<>>
    /\ calls = <<>>
    /\ questionsFailed = FALSE
    /\ fn = "none"
    /\ phrase = <<>>
    /\ returned = NotReturned

MatchReturn ==
    /\ pc = "match_call"
    /\ LET r == matchIssuesToLinear(extractedIssues, existingIssues, message)
           after == ArgumentsAfterMatch(extractedIssues, existingIssues)
       IN  /\ pc' = IF r.threw THEN "match_threw" ELSE "match_returned"
           /\ processedIssues' = r.value
           /\ extractedIssues' = after.extracted
           /\ existingIssues' = after.existing
    /\ UNCHANGED <<callVars, teamId, cmd, isDryRun, skipEnrichment, enrichmentContext,
                   message, refinedIssues,
                   refinedProcessed, issueDeadlines, i, results,
                   failedTitle, storeWrites, displayed, confirmAnswers, calls>>

\* A second call, with the same arrays and the same completion.
MatchAgain ==
    /\ pc \in {"match_returned", "match_threw"}
    /\ ~returned.called
    /\ LET r == matchIssuesToLinear(extractedIssues, existingIssues, message)
       IN  returned' = Outcome(r.threw, r.value)
    /\ UNCHANGED <<pc, questionsFailed, fn, phrase, teamId, cmd, isDryRun,
                   skipEnrichment, enrichmentContext, existingIssues,
                   extractedIssues, message, processedIssues, refinedIssues,
                   refinedProcessed, issueDeadlines, i, results,
                   failedTitle, storeWrites, displayed, confirmAnswers, calls>>

MatchNext == MatchReturn \/ MatchAgain

SpecMatch == MatchInit /\ [][MatchNext]_vars

----------------------------------------------------------------------------
(* Claims about matchIssuesToLinear, under SpecMatch. *)

MatchEnded == pc \in {"match_returned", "match_threw"}

ParsedMessage == message.type = "text" /\ message.json

\* the j-th entry of the response has an integer issueIndex in [0, N)
InRangeEntry(j) ==
    /\ message.matches[j].issueIndex.kind = "int"
    /\ message.matches[j].issueIndex.n >= 0
    /\ message.matches[j].issueIndex.n < Len(extractedIssues)

\* the j-th entry of the response has a number < 0 or >= N as issueIndex
OutOfRangeEntry(j) ==
    /\ message.matches[j].issueIndex.kind \in {"int", "frac"}
    /\ \/ message.matches[j].issueIndex.n < 0
       \/ message.matches[j].issueIndex.n >= Len(extractedIssues)

\* the k-th returned action is the j-th entry, attached to its candidate
Carries(k, j) ==
    /\ processedIssues[k].reason = message.matches[j].reason
    /\ processedIssues[k].action = message.matches[j].action
    /\ processedIssues[k].matchedIssueIdentifier
          = message.matches[j].matchedIssueIdentifier
    /\ processedIssues[k].extractedIssue
          = extractedIssues[message.matches[j].issueIndex.n + 1]

\* C1: for a response that parses, the call returns (it does not raise);
\* every entry whose issueIndex is < 0 or >= N is absent from the result and
\* every entry whose issueIndex is in [0, N) is present in it.
C1_OutOfRangeDropped ==
    (MatchEnded /\ ParsedMessage) =>
        /\ pc = "match_returned"
        /\ \A j \in 1..Len(message.matches) :
              /\ OutOfRangeEntry(j) =>
                    \A k \in 1..Len(processedIssues) :
                        processedIssues[k].reason # message.matches[j].reason
              /\ InRangeEntry(j) =>
                    \E k \in 1..Len(processedIssues) : Carries(k, j)

\* C1 witness: a response with an entry out of range and an entry in range
\* has been matched, and the result is shorter than the candidate list.
C1_Witness ==
    /\ pc = "match_returned"
    /\ \E j \in 1..Len(message.matches) : OutOfRangeEntry(j)
    /\ \E j \in 1..Len(message.matches) : InRangeEntry(j)
    /\ Len(processedIssues) < Len(extractedIssues)

SnapshotIds == { existingIssues[t].id : t \in 1..Len(existingIssues) }

SnapshotIdentifiers ==
    { existingIssues[t].identifier : t \in 1..Len(existingIssues) }

\* C6: every returned update or comment has a matchedIssueId that is the id
\* of a ticket of the snapshot: an entry whose target identifier does not
\* resolve is dropped.  Stated of the returned actions that are attached to
\* a candidate and name a target identifier.
C6_TargetsResolve ==
    pc = "match_returned" =>
        \A k \in 1..Len(processedIssues) :
            (/\ processedIssues[k].action \in {"update", "comment"}
             /\ processedIssues[k].extractedIssue # UndefinedCandidate
             /\ processedIssues[k].matchedIssueIdentifier # Undefined)
            => processedIssues[k].matchedIssueId \in SnapshotIds

\* C7: an in-range entry whose matchedIssueIdentifier is the identifier of no
\* ticket of the snapshot is returned with matchedIssueId unset and with the
\* action the model gave.
C7_UnresolvedKept ==
    (MatchEnded /\ ParsedMessage) =>
        \A j \in 1..Len(message.matches) :
            (/\ InRangeEntry(j)
             /\ message.matches[j].matchedIssueIdentifier \notin SnapshotIdentifiers)
            => \E k \in 1..Len(processedIssues) :
                  /\ Carries(k, j)
                  /\ processedIssues[k].matchedIssueId = Undefined

\* C7 witness: an update naming an identifier that is not in a non-empty
\* snapshot has been matched.
C7_Witness ==
    /\ pc = "match_returned"
    /\ existingIssues # <<>>
    /\ \E j \in 1..Len(message.matches) :
          /\ InRangeEntry(j)
          /\ message.matches[j].action = "update"
          /\ message.matches[j].matchedIssueIdentifier \notin SnapshotIdentifiers
          /\ message.matches[j].matchedIssueIdentifier # Undefined

\* C9: a returned matchedIssueId that is set is the id of a ticket of the
\* snapshot whose identifier is the action's matchedIssueIdentifier.
C9_TargetInSnapshot ==
    MatchEnded =>
        \A k \in 1..Len(processedIssues) :
            processedIssues[k].matchedIssueId # Undefined =>
                \E t \in 1..Len(existingIssues) :
                    /\ existingIssues[t].id = processedIssues[k].matchedIssueId
                    /\ existingIssues[t].identifier
                          = processedIssues[k].matchedIssueIdentifier

\* C9 witness: an action targeting the second ticket of the snapshot has
\* been returned.
C9_Witness ==
    /\ pc = "match_returned"
    /\ Len(existingIssues) = 2
    /\ \E k \in 1..Len(processedIssues) :
          processedIssues[k].matchedIssueId = existingIssues[2].id

\* C10: the in-range entries are all returned, in the order of the response:
\* of two in-range entries the earlier one is returned before the later one,
\* each with its own candidate, action, target identifier and reason.
C10_OrderKept ==
    (MatchEnded /\ ParsedMessage) =>
        \A j1, j2 \in 1..Len(message.matches) :
            (j1 < j2 /\ InRangeEntry(j1) /\ InRangeEntry(j2)) =>
                \E k1, k2 \in 1..Len(processedIssues) :
                    k1 < k2 /\ Carries(k1, j1) /\ Carries(k2, j2)

\* C10 witness: two entries with the same issueIndex and different actions
\* have been matched, and so have two entries in reverse candidate order.
C10_Witness ==
    /\ pc = "match_returned"
    /\ Len(message.matches) = 2
    /\ InRangeEntry(1) /\ InRangeEntry(2)
    /\ message.matches[1].action # message.matches[2].action
    /\ message.matches[1].issueIndex.n >= message.matches[2].issueIndex.n

C25_ShownNumberResolves ==
    (MatchEnded /\ ParsedMessage) =>
        \A c \in 1..Len(extractedIssues) :
            \A j \in 1..Len(message.matches) :
                message.matches[j].issueIndex
                    = IntIdx(PromptCandidates(extractedIssues)[c].number)
                => \E k \in 1..Len(processedIssues) :
                      /\ processedIssues[k].reason = message.matches[j].reason
                      /\ processedIssues[k].extractedIssue.title
                            = PromptCandidates(extractedIssues)[c].title

\* C27: every action the call returns is attached to one of the candidates
\* given to it, never to undefined, whatever issueIndex the response
\* carries: negative, too large, missing, or no integer.
C27_CandidateDefined ==
    pc = "match_returned" =>
        \A k \in 1..Len(processedIssues) :
            /\ processedIssues[k].extractedIssue # UndefinedCandidate
            /\ \E c \in 1..Len(extractedIssues) :
                  processedIssues[k].extractedIssue = extractedIssues[c]

\* C28: every action the call returns has an action that is create, update
\* or comment.  Stated of the returned actions that are attached to a
\* candidate.
C28_ActionOfThree ==
    pc = "match_returned" =>
        \A k \in 1..Len(processedIssues) :
            processedIssues[k].extractedIssue # UndefinedCandidate =>
                processedIssues[k].action \in {"create", "update", "comment"}

----------------------------------------------------------------------------
(* The run of a command: what the user, the language model and the ticket  *)
(* store can answer.                                                       *)

\* most questions generateTranscriptEnrichmentQuestions returns
MaxQuestions == 1

\* most candidates the re-extraction after feedback returns
MaxRefinedCand == 1

\* most entries in the matching response of the re-match after feedback
MaxRefinedMatches == 1

\* the answer to a question: the label of an option, or a written answer
Answers == {"option", "written"}

\* enrichmentContext after n questions: the answer given to each
EnrichmentContexts == UNION { [1..n -> Answers] : n \in 0..MaxQuestions }

\* the ids of the teams fetchTeams returns, one of which is selected
Teams == {"team-1", "team-2"}

\* the snapshots of a run
RunSnapshots == { s \in Snapshots : Len(s) <= 1 }

\* the lists the re-extraction can return: candidates the first extraction
\* does not return before them
RefinedExtractionOutputs ==
    { SubSeq(CandidatePool, 3, 2 + n) : n \in 0..MaxRefinedCand }

\* the first content block of an extraction completion
ExtractionMessages(outputs) ==
    { [type |-> "tool_use", json |-> FALSE, issues |-> <<>>],
      [type |-> "text", json |-> FALSE, issues |-> <<>>] }
    \cup { [type |-> "text", json |-> TRUE, issues |-> o] : o \in outputs }

\* extractIssuesStructured, from the completion's first content block on
extractIssuesStructured(msg) ==
    IF msg.type # "text" \/ ~msg.json
    THEN [threw |-> TRUE, value |-> <<>>]
    ELSE [threw |-> FALSE, value |-> msg.issues]

\* the questions a generator can return, in order
QuestionPool == <<"Q1", "Q2", "Q3">>

\* the lists generateTranscriptEnrichmentQuestions can return in a run
QuestionOutputs == { SubSeq(QuestionPool, 1, n) : n \in 0..MaxQuestions }

\* the first content block of a question completion
QuestionMessages(outputs) ==
    { [type |-> "tool_use", json |-> FALSE, questions |-> <<>>],
      [type |-> "text", json |-> FALSE, questions |-> <<>>] }
    \cup { [type |-> "text", json |-> TRUE, questions |-> o] : o \in outputs }

\* generateTranscriptEnrichmentQuestions, from the first content block on
generateTranscriptEnrichmentQuestions(msg) ==
    IF msg.type # "text" THEN Outcome(TRUE, <<>>)
    ELSE IF ~msg.json THEN Outcome(TRUE, <<>>)
    ELSE Outcome(FALSE, msg.questions)

\* generateEnrichmentQuestions, from the first content block on
generateEnrichmentQuestions(msg) ==
    IF msg.type # "text" THEN Outcome(TRUE, <<>>)
    ELSE IF ~msg.json THEN Outcome(TRUE, <<>>)
    ELSE Outcome(FALSE, msg.questions)

\* the catch block of the question generation (mutant: the error is
\* raised again, the command ends)
OnQuestionErrorRethrow(threw) == IF threw THEN "crashed" ELSE "fetch"

\* the catch block of the question generation: questions = [], the command
\* goes on
OnQuestionError(threw) == "fetch"

\* the entries of a matching response in a run with n candidates: an index
\* of the list, the first index past it or none; the first ticket of the
\* pool or none as target, and none for create and merge
RunEntries(n) ==
    { e \in BaseEntries :
        /\ e.issueIndex \in { IntIdx(k) : k \in 0..n } \cup { MissingIdx }
        /\ e.matchedIssueIdentifier \in {Undefined, TicketPool[1].identifier}
        /\ e.action \in {"create", "merge"}
              => e.matchedIssueIdentifier = Undefined }

RunResponsesOfLen(n, len) ==
    { r \in ResponsesOfLen(len) :
        \A j \in 1..len :
            [issueIndex |-> r[j].issueIndex, action |-> r[j].action,
             matchedIssueIdentifier |-> r[j].matchedIssueIdentifier]
                \in RunEntries(n) }

\* the first content block of a matching completion in a run
RunMessages(n, maxLen) ==
    { [type |-> "tool_use", json |-> FALSE, matches |-> <<>>],
      [type |-> "text", json |-> FALSE, matches |-> <<>>] }
    \cup { [type |-> "text", json |-> TRUE, matches |-> r] :
              r \in UNION { RunResponsesOfLen(n, len) : len \in 0..maxLen } }

\* item.extractedIssue.title is read of every action shown: it raises a
\* TypeError when extractedIssue is undefined
DisplayThrows(actions) ==
    \E k \in 1..Len(actions) : actions[k].extractedIssue = UndefinedCandidate

\* the dry-run check after a summary (mutant: the check is missing)
AfterSummaryNoDryRun(dry, next) == next

\* the dry-run check after a summary: where the run goes
AfterSummary(dry, next) == IF dry THEN "dryrun_end" ELSE next

\* after the first confirm (mutant: a quick run goes on when declined)
AfterConfirmIgnored(command, shouldProceed) ==
    IF command = "process"
    THEN (IF shouldProceed THEN "deadlines" ELSE "feedback")
    ELSE "exec"

\* after the first confirm: where the run goes
AfterConfirm(command, shouldProceed) ==
    IF shouldProceed
    THEN (IF command = "process" THEN "deadlines" ELSE "exec")
    ELSE (IF command = "process" THEN "feedback" ELSE "cancelled")

\* after the confirm of the refined proposal (mutant: the answer is not
\* looked at)
AfterConfirmRefinedIgnored(shouldProceedRefined) == "deadlines"

\* after the confirm of the refined proposal: where the run goes
AfterConfirmRefined(shouldProceedRefined) ==
    IF shouldProceedRefined THEN "deadlines" ELSE "cancelled"

Call(op, transcript, context, snapshot) ==
    [op |-> op, transcript |-> transcript, context |-> context,
     snapshot |-> snapshot]

----------------------------------------------------------------------------
(* Spec: the run, up to the review of the proposal. *)

Init ==
    /\ pc = "start"
    /\ cmd \in {"process", "quick"}
    /\ isDryRun \in BOOLEAN
    /\ skipEnrichment \in BOOLEAN
    /\ cmd = "quick" => skipEnrichment
    /\ enrichmentContext = <<>>
    /\ teamId = Undefined
    /\ existingIssues = <<>>
    /\ extractedIssues = <<>>
    /\ message = NoMessage
    /\ processedIssues = <<>>
    /\ refinedIssues = <<>>
    /\ refinedProcessed = <<>>
    /\ issueDeadlines = {}
    /\ i = 0
    /\ results = EmptyResults
    /\ failedTitle = Undefined
    /\ storeWrites = <<>>
    /\ displayed = <<>>
    /\ confirmAnswers = <<>>
    /\ calls = <<>>
    /\ questionsFailed = FALSE
    /\ fn = "none"
    /\ phrase = <<>>
    /\ returned = NotReturned

optionVars == <<cmd, isDryRun, skipEnrichment>>
matchVars == <<existingIssues, extractedIssues, message, processedIssues>>
refineVars == <<refinedIssues, refinedProcessed>>
execVars == <<issueDeadlines, i, results, failedTitle, storeWrites>>
reviewVars == <<displayed, confirmAnswers>>

\* Step 2 of process: the questions are generated (a failure is caught
\* and gives none) and each is answered by an option or in writing.
AskEnrichment ==
    /\ pc = "start"
    /\ ~skipEnrichment
    /\ \E msg \in QuestionMessages(QuestionOutputs) :
          LET r == generateTranscriptEnrichmentQuestions(msg)
              questions == IF r.threw THEN <<>> ELSE r.value
          IN  /\ questionsFailed' = r.threw
              /\ pc' = OnQuestionError(r.threw)
              /\ \E ctx \in EnrichmentContexts :
                    /\ Len(ctx) = Len(questions)
                    /\ enrichmentContext' = ctx
    /\ calls' = Append(calls,
                  Call("generateTranscriptEnrichmentQuestions", "transcript",
                       <<>>, <<>>))
    /\ UNCHANGED <<fn, phrase, returned, teamId, optionVars, matchVars,
                   refineVars, execVars, reviewVars>>

\* Step 2 skipped: --skip-enrichment, or the quick command.
SkipEnrichment ==
    /\ pc = "start"
    /\ skipEnrichment
    /\ pc' = "fetch"
    /\ UNCHANGED <<callVars, teamId, optionVars, enrichmentContext, matchVars, refineVars,
                   execVars, reviewVars, calls>>

\* Step 3 (mutant: the issues are fetched a second time, and the second
\* list is the one kept)
FetchExistingTwice ==
    /\ pc = "fetch"
    /\ \E team \in Teams : teamId' = team
    /\ \E first \in RunSnapshots, second \in RunSnapshots :
          /\ existingIssues' = second
          /\ calls' = Append(Append(calls,
                            Call("fetchIssuesForTeam", "", <<>>, first)),
                        Call("fetchIssuesForTeam", "", <<>>, second))
    /\ pc' = "extract"
    /\ UNCHANGED <<callVars, optionVars, enrichmentContext, extractedIssues,
                   message, processedIssues, refineVars, execVars, reviewVars>>

\* Step 3: the team is selected and its issues are fetched.
FetchExisting ==
    /\ pc = "fetch"
    /\ \E team \in Teams : teamId' = team
    /\ \E snapshot \in RunSnapshots :
          /\ existingIssues' = snapshot
          /\ calls' = Append(calls,
                        Call("fetchIssuesForTeam", "", <<>>, snapshot))
    /\ pc' = "extract"
    /\ UNCHANGED <<callVars, optionVars, enrichmentContext, extractedIssues, message,
                   processedIssues, refineVars, execVars, reviewVars>>

\* Step 4: extraction from the transcript, with the enrichment context.
Extract ==
    /\ pc = "extract"
    /\ \E msg \in ExtractionMessages(ExtractionOutputs) :
          LET r == extractIssuesStructured(msg)
          IN  /\ extractedIssues' = r.value
              /\ pc' = IF r.threw THEN "crashed" ELSE "match"
    /\ calls' = Append(calls,
                  Call("extractIssuesStructured", "transcript",
                       enrichmentContext, <<>>))
    /\ UNCHANGED <<callVars, teamId, optionVars, enrichmentContext, existingIssues, message,
                   processedIssues, refineVars, execVars, reviewVars>>

\* Step 5: matching against the snapshot.
Match ==
    /\ pc = "match"
    /\ \E msg \in RunMessages(Len(extractedIssues), MaxMatches) :
          LET r == matchIssuesToLinear(extractedIssues, existingIssues, msg)
          IN  /\ processedIssues' = r.value
              /\ pc' = IF r.threw THEN "crashed" ELSE "review"
    /\ calls' = Append(calls,
                  Call("matchIssuesToLinear", "", <<>>, existingIssues))
    /\ UNCHANGED <<callVars, teamId, optionVars, enrichmentContext, existingIssues,
                   extractedIssues, message, refineVars, execVars, reviewVars>>

\* The proposed actions and the summary are shown; a dry run ends here.
DisplayProposed ==
    /\ pc = "review"
    /\ IF DisplayThrows(processedIssues)
       THEN pc' = "crashed" /\ UNCHANGED displayed
       ELSE /\ displayed' = processedIssues
            /\ pc' = AfterSummary(isDryRun, "confirm")
    /\ UNCHANGED <<callVars, teamId, optionVars, enrichmentContext, matchVars, refineVars,
                   execVars, confirmAnswers, calls>>

\* Step 6: 'Proceed with these changes?'
Confirm ==
    /\ pc = "confirm"
    /\ \E shouldProceed \in BOOLEAN :
          /\ confirmAnswers' = Append(confirmAnswers, shouldProceed)
          /\ pc' = AfterConfirm(cmd, shouldProceed)
    /\ UNCHANGED <<callVars, teamId, optionVars, enrichmentContext, matchVars, refineVars,
                   execVars, displayed, calls>>

\* Declined: the feedback is asked; an empty one cancels the run.
FeedbackEmpty ==
    /\ pc = "feedback"
    /\ pc' = "cancelled"
    /\ UNCHANGED <<callVars, teamId, optionVars, enrichmentContext, matchVars, refineVars,
                   execVars, reviewVars, calls>>

\* Declined with feedback: extraction again, on transcript plus feedback.
RefineExtract ==
    /\ pc = "feedback"
    /\ \E msg \in ExtractionMessages(RefinedExtractionOutputs) :
          LET r == extractIssuesStructured(msg)
          IN  /\ refinedIssues' = r.value
              /\ pc' = IF r.threw THEN "crashed" ELSE "refine_match"
    /\ calls' = Append(calls,
                  Call("extractIssuesStructured", "combinedTranscript",
                       <<>>, <<>>))
    /\ UNCHANGED <<callVars, teamId, optionVars, enrichmentContext, matchVars, refinedProcessed,
                   execVars, reviewVars>>

\* Matching again, against the snapshot of the run.
RefineMatch ==
    /\ pc = "refine_match"
    /\ \E msg \in RunMessages(Len(refinedIssues), MaxRefinedMatches) :
          LET r == matchIssuesToLinear(refinedIssues, existingIssues, msg)
          IN  /\ refinedProcessed' = r.value
              /\ pc' = IF r.threw THEN "crashed" ELSE "refine_review"
    /\ calls' = Append(calls,
                  Call("matchIssuesToLinear", "", <<>>, existingIssues))
    /\ UNCHANGED <<callVars, teamId, optionVars, enrichmentContext, matchVars, refinedIssues,
                   execVars, reviewVars>>

\* The updated proposal and summary are shown.
DisplayRefined ==
    /\ pc = "refine_review"
    /\ IF DisplayThrows(refinedProcessed)
       THEN pc' = "crashed" /\ UNCHANGED displayed
       ELSE /\ displayed' = refinedProcessed
            /\ pc' = AfterSummary(isDryRun, "confirm_refined")
    /\ UNCHANGED <<callVars, teamId, optionVars, enrichmentContext, matchVars, refineVars,
                   execVars, confirmAnswers, calls>>

\* a variant that keeps the first proposal after the refined one is
\* confirmed
ConfirmRefinedKeepsProposal ==
    /\ pc = "confirm_refined"
    /\ \E shouldProceedRefined \in BOOLEAN :
          /\ confirmAnswers' = Append(confirmAnswers, shouldProceedRefined)
          /\ pc' = AfterConfirmRefined(shouldProceedRefined)
    /\ UNCHANGED <<callVars, teamId, optionVars, enrichmentContext, matchVars,
                   refineVars, execVars, displayed, calls>>

\* 'Proceed with these updated changes?': on yes the refined list replaces
\* the proposed one.
ConfirmRefined ==
    /\ pc = "confirm_refined"
    /\ \E shouldProceedRefined \in BOOLEAN :
          /\ confirmAnswers' = Append(confirmAnswers, shouldProceedRefined)
          /\ pc' = AfterConfirmRefined(shouldProceedRefined)
          /\ processedIssues' =
                IF shouldProceedRefined THEN refinedProcessed
                ELSE processedIssues
    /\ UNCHANGED <<callVars, teamId, optionVars, enrichmentContext, existingIssues,
                   extractedIssues, message, refineVars, execVars, displayed,
                   calls>>

----------------------------------------------------------------------------
(* Deadlines.  A text is a sequence of characters. *)

Digits == {"0", "1", "2", "3", "4", "5", "6", "7", "8", "9"}

Whitespace == {" ", "\n", "\t"}

\* the values of a deadline that are no text: null, and Map.get of no entry
Null == <<"null">>
UndefinedDate == <<"undefined">>

RECURSIVE TrimStart(_)
TrimStart(t) ==
    IF t # <<>> /\ Head(t) \in Whitespace THEN TrimStart(Tail(t)) ELSE t

RECURSIVE TrimEnd(_)
TrimEnd(t) ==
    IF t # <<>> /\ t[Len(t)] \in Whitespace
    THEN TrimEnd(SubSeq(t, 1, Len(t) - 1))
    ELSE t

\* String.prototype.trim
Trim(t) == TrimEnd(TrimStart(t))

\* \d{4}-\d{2}-\d{2} at offset k of t
DatePatternAt(t, k) ==
    /\ Len(t) >= k + 10
    /\ \A j \in {1, 2, 3, 4, 6, 7, 9, 10} : t[k + j] \in Digits
    /\ t[k + 5] = "-"
    /\ t[k + 8] = "-"

\* the test (mutant: the pattern has no ^ and $, it is found anywhere)
IsoDateRegexUnanchored(t) ==
    \E k \in 0..Len(t) : DatePatternAt(t, k)

\* /^\d{4}-\d{2}-\d{2}$/.test(t)
IsoDateRegex(t) == Len(t) = 10 /\ DatePatternAt(t, 0)

\* the first test (mutant: only the empty phrase passes it)
IsBlankEmptyOnly(deadline) == deadline = <<>>

\* !deadline || deadline.trim() === ''
IsBlank(deadline) == deadline = <<>> \/ Trim(deadline) = <<>>

\* parseDeadlineToDate: deadline is the phrase, reply the outcome of the
\* completion (a content block, or an error raised by the call)
parseDeadlineToDate(deadline, reply) ==
    IF IsBlank(deadline)
    THEN [threw |-> FALSE, called |-> FALSE, value |-> Null]
    ELSE IF reply.type = "error"
    THEN [threw |-> TRUE, called |-> TRUE, value |-> Null]
    ELSE IF reply.type # "text"
    THEN [threw |-> FALSE, called |-> TRUE, value |-> Null]
    ELSE IF Trim(reply.text) = <<"n", "u", "l", "l">>
    THEN [threw |-> FALSE, called |-> TRUE, value |-> Null]
    ELSE IF IsoDateRegex(Trim(reply.text))
    THEN [threw |-> FALSE, called |-> TRUE, value |-> Trim(reply.text)]
    ELSE [threw |-> FALSE, called |-> TRUE, value |-> Null]

\* what the completion of parseDeadlineToDate can be
DeadlineReplies ==
    { [type |-> "error", text |-> <<>>],
      [type |-> "tool_use", text |-> <<>>],
      [type |-> "text", text |-> <<"n", "u", "l", "l">>],
      [type |-> "text", text |-> <<"2", "0", "2", "5", "-", "0", "1", "-", "1", "7">>],
      [type |-> "text", text |-> <<" ", "2", "0", "2", "5", "-", "0", "1", "-", "1", "7", "\n">>],
      [type |-> "text", text |-> <<"2", "0", "2", "5", "-", "1", "3", "-", "4", "5">>],
      [type |-> "text", text |-> <<"b", "y", " ", "2", "0", "2", "5", "-", "0", "1", "-", "1", "7">>],
      [type |-> "text", text |-> <<"0", "1", "/", "1", "7", "/", "2", "0", "2", "5">>] }

\* the values of the select: write-in, two of the phrases, no deadline
DeadlineChoices == {"__write_in__", "next friday", "1 week", "__skip__"}

\* the text of a value of the select
ChoiceText(choice) ==
    CASE choice = "next friday" ->
            <<"n", "e", "x", "t", " ", "f", "r", "i", "d", "a", "y">>
      [] choice = "1 week" -> <<"1", " ", "w", "e", "e", "k">>
      [] choice = "__skip__" ->
            <<"_", "_", "s", "k", "i", "p", "_", "_">>
      [] OTHER -> <<"_", "_", "w", "r", "i", "t", "e", "_", "i", "n", "_", "_">>

\* what the user can write in: nothing, blanks, a phrase
WrittenDeadlines == { <<>>, <<" ", " ">>, <<"j", "a", "n", " ", "1", "5">> }

\* a variant that records nothing when the parse raises
ResolvedDeadlineErrorUnrecorded(deadlineChoice, customDeadline, reply) ==
    LET deadlineInput ==
            IF deadlineChoice = "__write_in__" THEN customDeadline
            ELSE ChoiceText(deadlineChoice)
    IN  IF deadlineChoice = "__skip__" \/ Trim(deadlineInput) = <<>>
        THEN Null
        ELSE LET parsed == parseDeadlineToDate(deadlineInput, reply)
             IN  IF parsed.threw THEN UndefinedDate
                 ELSE IF parsed.value # Null THEN parsed.value
                 ELSE Null

\* the deadline recorded for one create action
ResolvedDeadline(deadlineChoice, customDeadline, reply) ==
    LET deadlineInput ==
            IF deadlineChoice = "__write_in__" THEN customDeadline
            ELSE ChoiceText(deadlineChoice)
    IN  IF deadlineChoice = "__skip__" \/ Trim(deadlineInput) = <<>>
        THEN Null
        ELSE LET parsed == parseDeadlineToDate(deadlineInput, reply)
             IN  IF parsed.threw THEN Null
                 ELSE IF parsed.value # Null THEN parsed.value
                 ELSE Null

\* Map.prototype.set
MapSet(m, k, v) == { p \in m : p[1] # k } \cup { <<k, v>> }

\* Map.prototype.get
MapGet(m, k) ==
    IF \E p \in m : p[1] = k
    THEN (CHOOSE p \in m : p[1] = k)[2]
    ELSE UndefinedDate

\* a due date used as a condition
TruthyDate(d) == d # Null /\ d # UndefinedDate /\ d # <<>>

HasCreates(actions) ==
    \E k \in 1..Len(actions) : actions[k].action = "create"

\* No action creates: the deadline block is not entered.
DeadlinesNone ==
    /\ pc = "deadlines"
    /\ ~HasCreates(processedIssues)
    /\ pc' = "exec"
    /\ UNCHANGED <<callVars, teamId, optionVars, enrichmentContext, matchVars, refineVars,
                   execVars, reviewVars, calls>>

\* The deadline loop passes an action that does not create.
DeadlineContinue ==
    /\ pc = "deadlines"
    /\ HasCreates(processedIssues)
    /\ i < Len(processedIssues)
    /\ processedIssues[i + 1].action # "create"
    /\ i' = i + 1
    /\ UNCHANGED <<callVars, teamId, pc, optionVars, enrichmentContext, matchVars, refineVars,
                   issueDeadlines, results, failedTitle, storeWrites,
                   reviewVars, calls>>

\* The deadline of a create action is asked, parsed and recorded.
DeadlineAsk ==
    /\ pc = "deadlines"
    /\ i < Len(processedIssues)
    /\ processedIssues[i + 1].action = "create"
    /\ \E deadlineChoice \in DeadlineChoices,
          customDeadline \in WrittenDeadlines,
          reply \in DeadlineReplies :
          issueDeadlines' =
              MapSet(issueDeadlines, i,
                     ResolvedDeadline(deadlineChoice, customDeadline, reply))
    /\ i' = i + 1
    /\ UNCHANGED <<callVars, teamId, pc, optionVars, enrichmentContext, matchVars, refineVars,
                   results, failedTitle, storeWrites, reviewVars, calls>>

\* The deadline loop ends; the execute loop starts at 0.
DeadlinesDone ==
    /\ pc = "deadlines"
    /\ HasCreates(processedIssues)
    /\ i = Len(processedIssues)
    /\ pc' = "exec"
    /\ i' = 0
    /\ UNCHANGED <<callVars, teamId, optionVars, enrichmentContext, matchVars, refineVars,
                   issueDeadlines, results, failedTitle, storeWrites,
                   reviewVars, calls>>

----------------------------------------------------------------------------
(* The execute loop and the ticket-store writer. *)

\* the identifiers the store gives to the issues it creates, in order
NewIdentifiers == <<"N-1", "N-2", "N-3", "N-4", "N-5", "N-6">>

\* priorityMap[priority] (mutant: the scale starts at 0)
priorityMapFromZero(priority) ==
    CASE priority = "low" -> 0
      [] priority = "medium" -> 1
      [] priority = "high" -> 2
      [] priority = "urgent" -> 3

\* priorityMap[priority]
priorityMap(priority) ==
    CASE priority = "low" -> 1
      [] priority = "medium" -> 2
      [] priority = "high" -> 3
      [] priority = "urgent" -> 4

\* a variant whose update and comment branches do not test the target
ExecBranchUntested(item) ==
    CASE item.action = "create" -> "create"
      [] item.action = "update" -> "update"
      [] item.action = "comment" -> "comment"
      [] OTHER -> "none"

\* the branch of the execute loop an action takes
ExecBranch(item) ==
    CASE item.action = "create" -> "create"
      [] item.action = "update" /\ Truthy(item.matchedIssueId) -> "update"
      [] item.action = "comment" /\ Truthy(item.matchedIssueId) -> "comment"
      [] OTHER -> "none"

\* the argument the execute loop gives to createIssue
CreateParams(team, item, dueDate) ==
    [teamId |-> team,
     title |-> item.extractedIssue.title,
     description |-> item.extractedIssue.description,
     priority |-> priorityMap(item.extractedIssue.priority),
     dueDate |-> IF TruthyDate(dueDate) THEN dueDate ELSE UndefinedDate]

\* createIssue: the request it sends to the store
createIssue(params) ==
    [op |-> "createIssue",
     teamId |-> params.teamId,
     title |-> params.title,
     description |-> params.description,
     priority |-> params.priority]

\* updateIssue: the request it sends to the store
updateIssue(issueId, updates) ==
    [op |-> "updateIssue", issueId |-> issueId,
     description |-> updates.description]

\* addCommentToIssue: the request it sends to the store
addCommentToIssue(issueId, comment) ==
    [op |-> "createComment", issueId |-> issueId, body |-> comment]

\* the request of the action at index idx of the execute loop
WriteRequest(command, team, item, idx, deadlines) ==
    CASE ExecBranch(item) = "create" ->
            createIssue(CreateParams(team, item,
                IF command = "process" THEN MapGet(deadlines, idx)
                ELSE UndefinedDate))
      [] ExecBranch(item) = "update" ->
            updateIssue(item.matchedIssueId,
                        [description |-> item.extractedIssue.description])
      [] ExecBranch(item) = "comment" ->
            addCommentToIssue(item.matchedIssueId,
                <<"New feedback:\n", item.extractedIssue.description>>)

CreatedCount(writes) ==
    Cardinality({ k \in 1..Len(writes) :
                    writes[k].request.op = "createIssue"
                    /\ writes[k].status = "ok" })

\* item.matchedIssueIdentifier || matchedIssueId
TargetName(item) ==
    IF Truthy(item.matchedIssueIdentifier) THEN item.matchedIssueIdentifier
    ELSE item.matchedIssueId

\* a variant that records the target's internal id
PushResultTargetId(res, item, identifier) ==
    CASE ExecBranch(item) = "create" ->
            [res EXCEPT !.created = Append(@, identifier)]
      [] ExecBranch(item) = "update" ->
            [res EXCEPT !.updated = Append(@, item.matchedIssueId)]
      [] ExecBranch(item) = "comment" ->
            [res EXCEPT !.commented = Append(@, item.matchedIssueId)]

\* results after the write of item has returned identifier
PushResult(res, item, identifier) ==
    CASE ExecBranch(item) = "create" ->
            [res EXCEPT !.created = Append(@, identifier)]
      [] ExecBranch(item) = "update" ->
            [res EXCEPT !.updated = Append(@, TargetName(item))]
      [] ExecBranch(item) = "comment" ->
            [res EXCEPT !.commented = Append(@, TargetName(item))]

\* the catch block (mutant: the loop goes on with the next action)
OnWriteErrorContinue(idx) == [pc |-> "exec", i |-> idx + 1]

\* the catch block: the command returns
OnWriteError(idx) == [pc |-> "failed", i |-> idx]

\* the title the catch block names (mutant: the action before)
FailureTitlePrevious(actions, idx) ==
    IF idx = 0 THEN Undefined ELSE actions[idx].extractedIssue.title

\* the title the catch block names
FailureTitle(actions, idx) == actions[idx + 1].extractedIssue.title

\* An action with a branch: its request is sent to the store.
ExecWrite ==
    /\ pc = "exec"
    /\ i < Len(processedIssues)
    /\ ExecBranch(processedIssues[i + 1]) # "none"
    /\ storeWrites' = Append(storeWrites,
          [request |-> WriteRequest(cmd, teamId, processedIssues[i + 1], i,
                                    issueDeadlines),
           item |-> i, status |-> "pending", identifier |-> Undefined])
    /\ pc' = "exec_wait"
    /\ UNCHANGED <<callVars, teamId, optionVars, enrichmentContext, matchVars, refineVars,
                   issueDeadlines, i, results, failedTitle, reviewVars, calls>>

\* The store answers: the write is applied and its identifier recorded.
ExecWriteReturns ==
    /\ pc = "exec_wait"
    /\ LET n == Len(storeWrites)
           identifier ==
               IF storeWrites[n].request.op = "createIssue"
               THEN NewIdentifiers[CreatedCount(storeWrites) + 1]
               ELSE Undefined
       IN  /\ storeWrites' = [storeWrites EXCEPT ![n].status = "ok",
                                                 ![n].identifier = identifier]
           /\ results' = PushResult(results, processedIssues[i + 1], identifier)
    /\ i' = i + 1
    /\ pc' = "exec"
    /\ UNCHANGED <<callVars, teamId, optionVars, enrichmentContext, matchVars, refineVars,
                   issueDeadlines, failedTitle, reviewVars, calls>>

\* The store raises an error: the write is not applied, the run fails.
ExecWriteFails ==
    /\ pc = "exec_wait"
    /\ storeWrites' = [storeWrites EXCEPT ![Len(storeWrites)].status = "failed"]
    /\ failedTitle' = FailureTitle(processedIssues, i)
    /\ pc' = OnWriteError(i).pc
    /\ i' = OnWriteError(i).i
    /\ UNCHANGED <<callVars, teamId, optionVars, enrichmentContext, matchVars, refineVars,
                   issueDeadlines, results, reviewVars, calls>>

\* a variant that does not go on to the next action
ExecSkipStays ==
    /\ pc = "exec"
    /\ i < Len(processedIssues)
    /\ ExecBranch(processedIssues[i + 1]) = "none"
    /\ UNCHANGED vars

\* An action with no branch (no resolved target, or an action that is none
\* of the three): nothing is done for it.
ExecSkip ==
    /\ pc = "exec"
    /\ i < Len(processedIssues)
    /\ ExecBranch(processedIssues[i + 1]) = "none"
    /\ i' = i + 1
    /\ UNCHANGED <<callVars, teamId, pc, optionVars, enrichmentContext, matchVars, refineVars,
                   issueDeadlines, results, failedTitle, storeWrites,
                   reviewVars, calls>>

\* The loop ends: 'All changes applied successfully!'
ExecDone ==
    /\ pc = "exec"
    /\ i = Len(processedIssues)
    /\ pc' = "complete"
    /\ UNCHANGED <<callVars, teamId, optionVars, enrichmentContext, matchVars, refineVars,
                   execVars, reviewVars, calls>>

Next ==
    \/ AskEnrichment
    \/ SkipEnrichment
    \/ FetchExisting
    \/ Extract
    \/ Match
    \/ DisplayProposed
    \/ Confirm
    \/ FeedbackEmpty
    \/ RefineExtract
    \/ RefineMatch
    \/ DisplayRefined
    \/ ConfirmRefined
    \/ DeadlinesNone
    \/ DeadlineContinue
    \/ DeadlineAsk
    \/ DeadlinesDone
    \/ ExecWrite
    \/ ExecWriteReturns
    \/ ExecWriteFails
    \/ ExecSkip
    \/ ExecDone

Spec == Init /\ [][Next]_vars

\* The run under the assumption that every external call and every prompt
\* returns: the command is one thread of awaited calls, so a step that can
\* be taken is taken.
FairSpec == Spec /\ WF_vars(Next)

----------------------------------------------------------------------------
(* SpecCall: one call of a function of claude.ts that asks the language    *)
(* model, on a phrase and a completion drawn from bounded sets.            *)

\* most elements of the array an extraction completion decodes to
MaxRawCand == 2

\* most questions of a question completion
MaxCallQuestions == 2

LanguageModelFunctions ==
    {"extractIssuesStructured", "extractIssuesSimple",
     "generateTranscriptEnrichmentQuestions", "generateEnrichmentQuestions",
     "matchIssuesToLinear", "parseDeadlineToDate"}

IssueTypes == {"bug", "feature", "improvement", "question"}

\* the elements an extraction completion can decode to: two candidates of
\* the pool, one with a type that is none of the four, one with a priority
\* that is none of the four, one without priority
RawElements ==
    { CandidatePool[1], CandidatePool[2],
      [title |-> "T5", description |-> "D5", type |-> "epic",
       priority |-> "low"],
      [title |-> "T6", description |-> "D6", type |-> "bug",
       priority |-> "critical"],
      [title |-> "T7", description |-> "D7", type |-> "feature",
       priority |-> Undefined] }

\* the arrays an extraction completion can decode to
RawExtractionOutputs ==
    UNION { [1..n -> RawElements] : n \in 0..MaxRawCand }

\* the lists a question completion can decode to
CallQuestionOutputs ==
    { SubSeq(QuestionPool, 1, n) : n \in 0..MaxCallQuestions }

\* what extractIssuesSimple returns for a completion that is no text
NoTextResponse == <<"No text response received">>

\* extractIssuesSimple, from the first content block on
extractIssuesSimple(msg) ==
    IF msg.type = "text" THEN Outcome(FALSE, msg.text)
    ELSE Outcome(FALSE, NoTextResponse)

\* the first content block of a completion of extractIssuesSimple
SimpleMessages ==
    { [type |-> "tool_use", text |-> <<>>],
      [type |-> "text", text |-> <<>>],
      [type |-> "text", text |-> <<"1", ".", " ", "T", "1">>] }

\* what the completion of parseDeadlineToDate can be in a single call:
\* more formats that are no date of the pattern
CallDeadlineReplies ==
    DeadlineReplies \cup
    { [type |-> "text", text |-> <<"2", "0", "2", "5", "-", "1", "-", "7">>],
      [type |-> "text",
       text |-> <<"2", "0", "2", "5", "-", "0", "1", "-", "1", "7", "T",
                  "0", "0", ":", "0", "0">>],
      [type |-> "text", text |-> <<" ", "n", "u", "l", "l", " ">>],
      [type |-> "text", text |-> <<>>] }

\* the phrases parseDeadlineToDate can be given
DeadlinePhrases ==
    WrittenDeadlines \cup { <<"\t">>, <<" ", "\n">> }
    \cup { ChoiceText(choice) : choice \in DeadlineChoices }

\* the completions a function can get
CompletionsOf(f) ==
    CASE f = "extractIssuesStructured" ->
            ExtractionMessages(RawExtractionOutputs)
      [] f = "extractIssuesSimple" -> SimpleMessages
      [] f = "generateTranscriptEnrichmentQuestions" ->
            QuestionMessages(CallQuestionOutputs)
      [] f = "generateEnrichmentQuestions" ->
            QuestionMessages(CallQuestionOutputs)
      [] f = "matchIssuesToLinear" -> RunMessages(1, 1)
      [] f = "parseDeadlineToDate" -> CallDeadlineReplies

CallInit ==
    /\ pc = "call"
    /\ fn \in LanguageModelFunctions
    /\ message \in CompletionsOf(fn)
    /\ phrase \in IF fn = "parseDeadlineToDate" THEN DeadlinePhrases
                  ELSE { <<>> }
    /\ extractedIssues = IF fn = "matchIssuesToLinear"
                         THEN SubSeq(CandidatePool, 1, 1) ELSE <<>>
    /\ existingIssues = IF fn = "matchIssuesToLinear"
                        THEN SubSeq(TicketPool, 1, 1) ELSE <<>>
    /\ returned = NotReturned
    /\ questionsFailed = FALSE
    /\ processedIssues = <<>>
    /\ cmd = "none"
    /\ isDryRun = FALSE
    /\ skipEnrichment = TRUE
    /\ enrichmentContext = <<>>
    /\ teamId = Undefined
    /\ refinedIssues = <<>>
    /\ refinedProcessed = <<>>
    /\ issueDeadlines = {}
    /\ i = 0
    /\ results = EmptyResults
    /\ failedTitle = Undefined
    /\ storeWrites = <<>>
    /\ displayed = <<>>
    /\ confirmAnswers = <<>>
    /\ calls = <<>>

\* the outcome of the call of f
OutcomeOf(f, extracted, existing, deadline, msg) ==
    CASE f = "extractIssuesStructured" ->
            LET r == extractIssuesStructured(msg)
            IN  Outcome(r.threw, r.value)
      [] f = "extractIssuesSimple" -> extractIssuesSimple(msg)
      [] f = "generateTranscriptEnrichmentQuestions" ->
            generateTranscriptEnrichmentQuestions(msg)
      [] f = "generateEnrichmentQuestions" ->
            generateEnrichmentQuestions(msg)
      [] f = "matchIssuesToLinear" ->
            LET r == matchIssuesToLinear(extracted, existing, msg)
            IN  Outcome(r.threw, r.value)
      [] f = "parseDeadlineToDate" -> parseDeadlineToDate(deadline, msg)

\* The call returns a value or raises an error.
CallReturn ==
    /\ pc = "call"
    /\ LET r == OutcomeOf(fn, extractedIssues, existingIssues, phrase, message)
       IN  /\ returned' = r
           /\ pc' = IF r.threw THEN "threw" ELSE "returned"
    /\ UNCHANGED <<questionsFailed, fn, phrase, teamId, cmd, isDryRun,
                   skipEnrichment, enrichmentContext, existingIssues,
                   extractedIssues, message, processedIssues, refinedIssues,
                   refinedProcessed, issueDeadlines, i, results,
                   failedTitle, storeWrites, displayed, confirmAnswers, calls>>

CallNext == CallReturn

SpecCall == CallInit /\ [][CallNext]_vars

----------------------------------------------------------------------------
(* Claims about the single calls, under SpecCall. *)

CallEnded == pc \in {"returned", "threw"}

\* C16: a call of any of the six functions whose completion has a first
\* content block that is no text raises an error; it does not return a
\* value.
C16_NonTextRaises ==
    (/\ CallEnded
     /\ returned.called
     /\ message.type \notin {"text", "error"})
    => pc = "threw"

\* C17: every element of a list extractIssuesStructured returns has a type
\* of bug, feature, improvement, question and a priority of low, medium,
\* high, urgent; a completion that decodes to an array with another element
\* makes the call raise.
C17_EnumsValidated ==
    (fn = "extractIssuesStructured" /\ pc = "returned") =>
        \A k \in 1..Len(returned.value) :
            /\ returned.value[k].type \in IssueTypes
            /\ returned.value[k].priority \in {"low", "medium", "high", "urgent"}

\* every character of t is white space
OnlyWhitespace(t) == \A k \in 1..Len(t) : t[k] \in {" ", "\n", "\t"}

\* C19: parseDeadlineToDate given the empty phrase or a phrase of white
\* space only returns null and asks the language model nothing.
C19_BlankPhraseNoCall ==
    (/\ fn = "parseDeadlineToDate"
     /\ CallEnded
     /\ OnlyWhitespace(phrase))
    => /\ pc = "returned"
       /\ returned.value = Null
       /\ ~returned.called

\* C19 witness: the call on a phrase of two blanks has returned, with a
\* completion at hand that is a date.
C19_Witness ==
    /\ fn = "parseDeadlineToDate"
    /\ pc = "returned"
    /\ phrase = <<" ", " ">>
    /\ message.type = "text"
    /\ message.text = <<"2", "0", "2", "5", "-", "0", "1", "-", "1", "7">>

\* t is four digits, a hyphen, two digits, a hyphen, two digits
FourTwoTwo(t) ==
    /\ Len(t) = 10
    /\ \A k \in {1, 2, 3, 4, 6, 7, 9, 10} :
          t[k] \in {"0", "1", "2", "3", "4", "5", "6", "7", "8", "9"}
    /\ t[5] = "-" /\ t[8] = "-"

\* C20: for a completion that is text, parseDeadlineToDate returns null or
\* the trimmed text; it returns the trimmed text when that is four digits,
\* a hyphen, two digits, a hyphen, two digits, and null for any other text.
C20_DateOrNull ==
    (/\ fn = "parseDeadlineToDate"
     /\ CallEnded
     /\ returned.called
     /\ message.type = "text")
    => /\ pc = "returned"
       /\ IF FourTwoTwo(Trim(message.text))
          THEN returned.value = Trim(message.text)
          ELSE returned.value = Null

\* C20 witness: a date with surrounding white space was returned trimmed.
C20_Witness ==
    /\ fn = "parseDeadlineToDate"
    /\ pc = "returned"
    /\ returned.called
    /\ message.type = "text"
    /\ Len(message.text) = 12
    /\ returned.value = <<"2", "0", "2", "5", "-", "0", "1", "-", "1", "7">>

\* the number a decimal digit stands for
DigitValue(c) ==
    CASE c = "0" -> 0 [] c = "1" -> 1 [] c = "2" -> 2 [] c = "3" -> 3
      [] c = "4" -> 4 [] c = "5" -> 5 [] c = "6" -> 6 [] c = "7" -> 7
      [] c = "8" -> 8 [] c = "9" -> 9

\* the number the two digits of t at positions k and k + 1 stand for
TwoDigits(t, k) == 10 * DigitValue(t[k]) + DigitValue(t[k + 1])

\* the year of a text of the form YYYY-MM-DD
YearOf(t) == 100 * TwoDigits(t, 1) + TwoDigits(t, 3)

\* the days of a month of a year of the Gregorian calendar
DaysInMonth(year, month) ==
    IF month \in {4, 6, 9, 11} THEN 30
    ELSE IF month # 2 THEN 31
    ELSE IF year % 4 = 0 /\ (year % 100 # 0 \/ year % 400 = 0) THEN 29
    ELSE 28

\* t is the ISO form of a day of the calendar
IsCalendarDate(t) ==
    /\ FourTwoTwo(t)
    /\ TwoDigits(t, 6) \in 1..12
    /\ TwoDigits(t, 9) \in 1..DaysInMonth(YearOf(t), TwoDigits(t, 6))

\* C21: every deadline parseDeadlineToDate returns that is not null is an
\* ISO calendar date: its month is 01 to 12 and its day exists in that
\* month.
C21_CalendarDate ==
    (/\ fn = "parseDeadlineToDate"
     /\ pc = "returned"
     /\ returned.value # Null)
    => IsCalendarDate(returned.value)

----------------------------------------------------------------------------
(* Claims about the run, under Spec. *)

\* the ticket-store operation of an action
OpOf(action) ==
    CASE action = "create" -> "createIssue"
      [] action = "update" -> "updateIssue"
      [] action = "comment" -> "createComment"
      [] OTHER -> "none"

\* C2: the writes are issued one at a time in the order of the action list
\* (every write but the last has returned, the writes are those of actions
\* at increasing positions), and the first write that fails is the last one:
\* the run has stopped, nothing was attempted after it, and the writes before
\* it are applied, with no call other than create, update and comment.
C2_SequentialFailFast ==
    /\ \A k \in 1..Len(storeWrites) - 1 : storeWrites[k].status = "ok"
    /\ \A k \in 1..Len(storeWrites) :
          /\ storeWrites[k].item < Len(processedIssues)
          /\ storeWrites[k].request.op
                = OpOf(processedIssues[storeWrites[k].item + 1].action)
          /\ storeWrites[k].request.op
                \in {"createIssue", "updateIssue", "createComment"}
          /\ storeWrites[k].status = "pending" => pc = "exec_wait"
          /\ storeWrites[k].status = "failed" =>
                pc = "failed" /\ storeWrites[k].item = i
    /\ \A k1, k2 \in 1..Len(storeWrites) :
          k1 < k2 => storeWrites[k1].item < storeWrites[k2].item

\* C2 witness: the second action's write failed after the first action's
\* write was applied.
C2_Witness ==
    /\ pc = "failed"
    /\ Len(storeWrites) = 2
    /\ storeWrites[1].status = "ok"
    /\ storeWrites[2].status = "failed"

\* the positions of the applied writes of an operation
AppliedWrites(op) ==
    { k \in 1..Len(storeWrites) :
        storeWrites[k].status = "ok" /\ storeWrites[k].request.op = op }

\* what RunResult records for the applied write at position k
EffectOf(k) ==
    IF storeWrites[k].request.op = "createIssue"
    THEN storeWrites[k].identifier
    ELSE processedIssues[storeWrites[k].item + 1].matchedIssueIdentifier

\* seq holds one entry per applied write of op, in order: its effect
HoldsFor(seq, op) ==
    /\ Len(seq) = Cardinality(AppliedWrites(op))
    /\ \A k \in AppliedWrites(op) :
          seq[Cardinality({ h \in AppliedWrites(op) : h <= k })] = EffectOf(k)

\* C3: when the action at position k is the first to fail, the run names
\* the title of its candidate, every action before it that writes has its
\* write applied, and RunResult holds the effects of those writes and
\* nothing else.
C3_FailFastResult ==
    pc = "failed" =>
        /\ i < Len(processedIssues)
        /\ failedTitle = processedIssues[i + 1].extractedIssue.title
        /\ \A j \in 0..i - 1 :
              (\/ processedIssues[j + 1].action = "create"
               \/ /\ processedIssues[j + 1].action \in {"update", "comment"}
                  /\ processedIssues[j + 1].matchedIssueId # Undefined)
              => \E k \in 1..Len(storeWrites) :
                    storeWrites[k].item = j /\ storeWrites[k].status = "ok"
        /\ \A k \in 1..Len(storeWrites) :
              storeWrites[k].status = "ok" <=> storeWrites[k].item < i
        /\ HoldsFor(results.created, "createIssue")
        /\ HoldsFor(results.updated, "updateIssue")
        /\ HoldsFor(results.commented, "createComment")

\* C3 witness: the second action failed and RunResult holds the effect of
\* the first; the two candidates have different titles.
C3_Witness ==
    /\ pc = "failed"
    /\ i = 1
    /\ results # EmptyResults
    /\ processedIssues[1].extractedIssue.title
          # processedIssues[2].extractedIssue.title

LastAnswer == confirmAnswers[Len(confirmAnswers)]

\* C4: a write is issued only after the action list being executed was
\* shown and the user's last answer to a confirmation was yes; after a
\* declined confirmation, and in a cancelled run, no write has been issued.
C4_ConfirmBeforeWrite ==
    /\ storeWrites # <<>> =>
          /\ confirmAnswers # <<>>
          /\ LastAnswer
          /\ displayed = processedIssues
    /\ (confirmAnswers # <<>> /\ ~LastAnswer) => storeWrites = <<>>
    /\ pc = "cancelled" =>
          storeWrites = <<>> /\ confirmAnswers # <<>> /\ ~LastAnswer

\* C4 witness: the first proposal was declined, the refined one confirmed,
\* and a write of the refined list has been issued.
C4_Witness ==
    /\ confirmAnswers = <<FALSE, TRUE>>
    /\ storeWrites # <<>>

\* C5: in a dry run no write is issued and no confirmation is asked; the
\* run ends when the proposal has been shown.
C5_DryRunNoWrites ==
    isDryRun =>
        /\ storeWrites = <<>>
        /\ confirmAnswers = <<>>
        /\ pc \in {"start", "fetch", "extract", "match", "review",
                   "dryrun_end", "crashed"}
        /\ pc = "dryrun_end" => displayed = processedIssues

\* C5 witness: a dry run has ended after showing a proposal that creates and
\* updates.
C5_Witness ==
    /\ isDryRun
    /\ pc = "dryrun_end"
    /\ \E k \in 1..Len(processedIssues) : processedIssues[k].action = "create"
    /\ \E k \in 1..Len(processedIssues) :
          /\ processedIssues[k].action = "update"
          /\ processedIssues[k].matchedIssueId # Undefined

\* C8: every update or comment action the execute loop comes to has a
\* resolved target id (the caller has removed the others).  Stated of the
\* process command and of the actions that name a target identifier.
C8_TargetsResolvedAtExec ==
    (cmd = "process" /\ pc = "exec" /\ i < Len(processedIssues)) =>
        ((/\ processedIssues[i + 1].action \in {"update", "comment"}
          /\ processedIssues[i + 1].matchedIssueIdentifier # Undefined)
            => processedIssues[i + 1].matchedIssueId # Undefined)

\* the candidate of the action whose write is at position k of the store
CandidateOf(k) == processedIssues[storeWrites[k].item + 1].extractedIssue

DueDateOf(request) ==
    IF "dueDate" \in DOMAIN request THEN request.dueDate ELSE UndefinedDate

\* C13: in a process run, the create request of the action at position i
\* carries the date resolved for position i when there is one and no due
\* date when there is none; update and comment requests carry no due date.
C13_DueDateReachesStore ==
    cmd = "process" =>
        \A k \in 1..Len(storeWrites) :
            IF storeWrites[k].request.op = "createIssue"
            THEN IF TruthyDate(MapGet(issueDeadlines, storeWrites[k].item))
                 THEN DueDateOf(storeWrites[k].request)
                         = MapGet(issueDeadlines, storeWrites[k].item)
                 ELSE DueDateOf(storeWrites[k].request) = UndefinedDate
            ELSE DueDateOf(storeWrites[k].request) = UndefinedDate

\* the positions in calls of the calls of an operation
CallsOf(op) == { k \in 1..Len(calls) : calls[k].op = op }

\* C14: the existing issues are fetched at most once, and exactly once as
\* soon as the run is past step 3; every matching call comes after the
\* fetch and is given the list the fetch returned, which the run keeps
\* unchanged.
C14_FetchedOnce ==
    /\ Cardinality(CallsOf("fetchIssuesForTeam")) <= 1
    /\ pc \notin {"start", "fetch"} =>
          Cardinality(CallsOf("fetchIssuesForTeam")) = 1
    /\ \A f \in CallsOf("fetchIssuesForTeam") :
          existingIssues = calls[f].snapshot
    /\ \A m \in CallsOf("matchIssuesToLinear") :
          \E f \in CallsOf("fetchIssuesForTeam") :
              f < m /\ calls[m].snapshot = calls[f].snapshot

\* C14 witness: the matching and the re-match after feedback have both been
\* called, against a snapshot of one ticket.
C14_Witness ==
    /\ Cardinality(CallsOf("matchIssuesToLinear")) = 2
    /\ Len(existingIssues) = 1
    /\ pc = "refine_review"

\* the operations called so far, in order
OpsCalled == [k \in 1..Len(calls) |-> calls[k].op]

IsPrefix(a, b) == Len(a) <= Len(b) /\ a = SubSeq(b, 1, Len(a))

\* the calls of a run after the clarifying questions: fetch, extract,
\* match and, after a declined review with feedback, extract and match again
CallsFromFetch ==
    <<"fetchIssuesForTeam", "extractIssuesStructured", "matchIssuesToLinear",
      "extractIssuesStructured", "matchIssuesToLinear">>

C18_ParseFailureEndsRun ==
    questionsFailed =>
        /\ pc = "crashed"
        /\ CallsOf("fetchIssuesForTeam") = {}
        /\ storeWrites = <<>>

\* the deadline step of the create action at i was answered by this choice,
\* this written phrase and this completion of the parse
DeadlineAnswered(deadlineChoice, customDeadline, reply) ==
    /\ pc = "deadlines"
    /\ i < Len(processedIssues)
    /\ processedIssues[i + 1].action = "create"
    /\ i' = i + 1
    /\ issueDeadlines' =
           MapSet(issueDeadlines, i,
                  ResolvedDeadline(deadlineChoice, customDeadline, reply))

\* the answer resolves to no date: 'No deadline', a blank phrase, a parse
\* that returns null or raises
Unresolved(deadlineChoice, customDeadline, reply) ==
    \/ deadlineChoice = "__skip__"
    \/ deadlineChoice = "__write_in__" /\ OnlyWhitespace(customDeadline)
    \/ LET deadlineInput ==
               IF deadlineChoice = "__write_in__" THEN customDeadline
               ELSE ChoiceText(deadlineChoice)
           parsed == parseDeadlineToDate(deadlineInput, reply)
       IN  parsed.threw \/ parsed.value = Null

\* C22: a deadline that does not resolve never aborts the run: when the
\* user picks 'No deadline', writes a blank phrase, or the parse returns
\* null or raises, the deadline of that create action is recorded as unset,
\* the deadlines of the other actions stay as they are, and the loop goes
\* on to the next action.
C22_UnresolvedDeadlineUnset ==
    [][(pc = "deadlines" /\ i' = i + 1) =>
          \A deadlineChoice \in DeadlineChoices,
             customDeadline \in WrittenDeadlines,
             reply \in DeadlineReplies :
             (/\ DeadlineAnswered(deadlineChoice, customDeadline, reply)
              /\ Unresolved(deadlineChoice, customDeadline, reply))
             => /\ pc' = "deadlines"
                /\ MapGet(issueDeadlines', i) = Null
                /\ \A k \in 0..(Len(processedIssues) - 1) :
                       k # i =>
                           MapGet(issueDeadlines', k) = MapGet(issueDeadlines, k)
                /\ processedIssues' = processedIssues]_vars

\* C22 witness: the deadline of the first create action is unset, the
\* second create action was still asked and got a date, and the run has
\* written to the store.
C22_Witness ==
    /\ pc \in {"exec", "exec_wait", "complete"}
    /\ Len(processedIssues) = 2
    /\ processedIssues[1].action = "create"
    /\ processedIssues[2].action = "create"
    /\ MapGet(issueDeadlines, 0) = Null
    /\ MapGet(issueDeadlines, 1) = <<"2", "0", "2", "5", "-", "0", "1", "-", "1", "7">>
    /\ Len(storeWrites) = 2
\* C23: at every point of the run, and so at every point of the execute
\* loop, RunResult holds exactly one identifier per write that succeeded,
\* in the list of its kind and in the order of the actions: for a create
\* the identifier the store returned, for an update or a comment the
\* human-readable identifier of the target; a write that failed or is not
\* yet answered has no entry.
C23_ResultsTrackWrites ==
    /\ HoldsFor(results.created, "createIssue")
    /\ HoldsFor(results.updated, "updateIssue")
    /\ HoldsFor(results.commented, "createComment")
    /\ Len(results.created) + Len(results.updated) + Len(results.commented)
          = Cardinality({ k \in 1..Len(storeWrites) :
                            storeWrites[k].status = "ok" })
    /\ \A k, h \in 1..Len(storeWrites) :
          k < h => storeWrites[k].item < storeWrites[h].item
    /\ \A k \in 1..Len(storeWrites) :
          storeWrites[k].request.op # "createIssue" =>
              \E h \in 1..Len(existingIssues) :
                  /\ existingIssues[h].id = storeWrites[k].request.issueId
                  /\ existingIssues[h].identifier =
                        processedIssues[storeWrites[k].item + 1].matchedIssueIdentifier

\* C23 witness: in the middle of the loop the update of the first action
\* is recorded under the identifier of its target and the create of the
\* second action, sent and not yet answered, is not recorded.
C23_Witness ==
    /\ pc = "exec_wait"
    /\ i = 1
    /\ Len(storeWrites) = 2
    /\ results.updated = <<"A-1">>
    /\ results.created = <<>>
    /\ storeWrites[2].request.op = "createIssue"
\* the calls of op so far, in order of call
CallSeqOf(op) ==
    LET RECURSIVE Pick(_)
        Pick(n) ==
            IF n = 0 THEN <<>>
            ELSE IF calls[n].op = op THEN Append(Pick(n - 1), calls[n])
            ELSE Pick(n - 1)
    IN  Pick(Len(calls))

\* the re-extraction after feedback has returned
ReExtracted ==
    pc \in {"refine_match", "refine_review", "confirm_refined"}
    \/ Len(confirmAnswers) = 2

\* the re-match after feedback has returned
ReMatched ==
    pc \in {"refine_review", "confirm_refined"} \/ Len(confirmAnswers) = 2

\* C24: once the first proposal is declined with feedback, extraction and
\* matching are each run again exactly once, the extraction on the
\* transcript plus the feedback and the matching against the snapshot of
\* the first matching; they are never run a third time. When the refined
\* proposal is confirmed, the deadline selection and the execution use
\* exactly the refined list: every write is the request of a refined
\* action, on a candidate of the re-extraction.
C24_RefinedOnce ==
    /\ Len(confirmAnswers) <= 2
    /\ Len(CallSeqOf("extractIssuesStructured")) <= 2
    /\ Len(CallSeqOf("matchIssuesToLinear")) <= 2
    /\ Len(CallSeqOf("extractIssuesStructured")) = 2 =>
          /\ confirmAnswers # <<>> /\ ~confirmAnswers[1]
          /\ CallSeqOf("extractIssuesStructured")[1].transcript = "transcript"
          /\ CallSeqOf("extractIssuesStructured")[2].transcript
                = "combinedTranscript"
    /\ ReExtracted => Len(CallSeqOf("extractIssuesStructured")) = 2
    /\ ReMatched =>
          /\ Len(CallSeqOf("matchIssuesToLinear")) = 2
          /\ CallSeqOf("matchIssuesToLinear")[2].snapshot
                = CallSeqOf("matchIssuesToLinear")[1].snapshot
    /\ Len(confirmAnswers) = 2 /\ confirmAnswers[2] =>
          /\ processedIssues = refinedProcessed
          /\ \A p \in issueDeadlines :
                /\ p[1] < Len(refinedProcessed)
                /\ refinedProcessed[p[1] + 1].action = "create"
          /\ \A k \in 1..Len(storeWrites) :
                LET item == refinedProcessed[storeWrites[k].item + 1]
                IN  /\ storeWrites[k].request =
                          WriteRequest(cmd, teamId, item, storeWrites[k].item,
                                       issueDeadlines)
                    /\ \E c \in 1..Len(refinedIssues) :
                          item.extractedIssue = refinedIssues[c]
                    /\ \A c \in 1..Len(extractedIssues) :
                          item.extractedIssue # extractedIssues[c]

\* C24 witness: the first extraction gave two candidates, the proposal was
\* declined and the refined one confirmed, and the run is complete with
\* one write, the create of the candidate of the re-extraction.
C24_Witness ==
    /\ pc = "complete"
    /\ confirmAnswers = <<FALSE, TRUE>>
    /\ Len(extractedIssues) = 2
    /\ Len(storeWrites) = 1
    /\ storeWrites[1].request.op = "createIssue"
    /\ storeWrites[1].request.title = "T3"
    /\ storeWrites[1].status = "ok"
\* the action at index j of the list to execute is an update or a comment
\* whose target did not resolve
UnresolvedAction(j) ==
    /\ processedIssues[j + 1].action \in {"update", "comment"}
    /\ processedIssues[j + 1].matchedIssueId = Undefined

\* C26: an update or comment whose matchedIssueId is unset causes no call
\* of the store, adds nothing to RunResult and does not stop the loop: no
\* write is ever sent for it, the run never waits or fails on it, RunResult
\* holds entries of the other actions only, and the run is complete once
\* the loop has passed every action.
C26_UnresolvedSkipped ==
    pc \in {"exec", "exec_wait", "failed", "complete"} =>
        /\ \A j \in 0..(Len(processedIssues) - 1) :
              UnresolvedAction(j) =>
                  /\ \A k \in 1..Len(storeWrites) : storeWrites[k].item # j
                  /\ pc \in {"exec_wait", "failed"} => i # j
        /\ Len(results.created) + Len(results.updated) + Len(results.commented)
              <= Cardinality({ j \in 0..(Len(processedIssues) - 1) :
                                 ~UnresolvedAction(j) /\ j < i })
        /\ pc = "complete" => i = Len(processedIssues)

\* C26 witness: the run is complete with no write at all; its two actions
\* are an update and a comment with no resolved target.
C26_Witness ==
    /\ pc = "complete"
    /\ Len(processedIssues) = 2
    /\ processedIssues[1].action = "update"
    /\ processedIssues[2].action = "comment"
    /\ UnresolvedAction(0) /\ UnresolvedAction(1)
    /\ storeWrites = <<>>
    /\ results = EmptyResults
\* C29: every extraction call of a run is given the enrichment answers the
\* run has collected: the re-extraction after feedback gets the context of
\* the first extraction.
C29_SameContext ==
    \A k \in CallsOf("extractIssuesStructured") :
        calls[k].context = enrichmentContext
\* the outcomes a run can end with: the four of the claim, and the end by
\* an error that no handler catches
Outcomes == {"dryrun_end", "cancelled", "failed", "complete"}

OutcomesWithError == Outcomes \cup {"crashed"}

\* the position of a step in the workflow; the loops over the actions stay
\* within their step
StepRank(p) ==
    CASE p = "start" -> 0
      [] p = "fetch" -> 1
      [] p = "extract" -> 2
      [] p = "match" -> 3
      [] p = "review" -> 4
      [] p = "confirm" -> 5
      [] p = "feedback" -> 6
      [] p = "refine_match" -> 7
      [] p = "refine_review" -> 8
      [] p = "confirm_refined" -> 9
      [] p = "deadlines" -> 10
      [] p \in {"exec", "exec_wait"} -> 11
      [] OTHER -> 12

\* the most actions a run executes
MaxActions == MaxMatches + MaxRefinedMatches

\* the steps a run has left at most: the steps of the workflow after the
\* present one, each counted with room for its loop, and the rest of the
\* loop of the present one
Measure ==
    (12 - StepRank(pc)) * (2 * MaxActions + 2)
    + (CASE pc = "deadlines" -> Len(processedIssues) - i
         [] pc = "exec" -> 2 * (Len(processedIssues) - i) + 1
         [] pc = "exec_wait" -> 2 * (Len(processedIssues) - i)
         [] OTHER -> 0)

\* C30 as stated: a run that can take no further step has ended with a
\* dry-run exit, cancelled, failed on a named candidate, or complete.
C30_FourOutcomes == pc \in Outcomes \/ ENABLED <<Next>>_vars

\* C30: every run reaches after finitely many steps exactly one outcome,
\* one of dry-run exit, cancelled, failed on a named candidate, complete,
\* or ended by an error no handler catches, and stays there: a run that
\* has no outcome yet can take a step, every step lowers the number of
\* steps left, and no step is possible after an outcome. No step of the
\* workflow is entered a second time: the steps are passed in one
\* direction, the questions and the fetch are called at most once,
\* extraction and matching at most twice, the second time after a declined
\* proposal.
C30_Terminates ==
    /\ [](pc \in OutcomesWithError \/ ENABLED <<Next>>_vars)
    /\ [](Measure \in Nat)
    /\ [][/\ Measure' < Measure
          /\ StepRank(pc') >= StepRank(pc)
          /\ pc \notin OutcomesWithError]_vars
    /\ [](/\ \A op \in {"generateTranscriptEnrichmentQuestions",
                         "fetchIssuesForTeam"} :
                Len(CallSeqOf(op)) <= 1
          /\ \A op \in {"extractIssuesStructured", "matchIssuesToLinear"} :
                /\ Len(CallSeqOf(op)) <= 2
                /\ Len(CallSeqOf(op)) = 2 =>
                      confirmAnswers # <<>> /\ ~confirmAnswers[1])

\* C30 witness: a run has ended by an error after the second matching.
C30_Witness ==
    /\ pc = "crashed"
    /\ Len(CallSeqOf("matchIssuesToLinear")) = 2
    /\ Len(CallSeqOf("extractIssuesStructured")) = 2
====
